---- MODULE Spec2Model ----
(***************************************************************************)
(* A model of mlir_opt_comp_helper.py: the help-text parser (parse_help,    *)
(* decode_option), the completion renderer (option_to_values,               *)
(* to_zsh_optspec, to_zsh_value), the payload builder (build_payload) and   *)
(* the on-disk result cache (load_cache, save_cache, get_data).             *)
(*                                                                          *)
(* A Python str is modelled as a sequence of one-character strings, so that *)
(* lstrip, partition, split, replace and join are computed, not assumed.    *)
(***************************************************************************)
EXTENDS Integers, Sequences, FiniteSets, TLC

(***************************************************************************)
(* Bounds of the model.                                                     *)
(***************************************************************************)
\* number of lines of help text fed to parse_help
MaxLines == 4
\* number of consecutive calls of get_data
MaxCalls == 2
\* number of helper invocations running save_cache at once
NWriters == 2
\* number of writes json.dump's output reaches the file in
NChunks == 2
\* number of lines of the help texts that exercise the section headers
MaxSectionLines == 3

(***************************************************************************)
(* Python str primitives.                                                   *)
(***************************************************************************)
\* the characters str.strip()/str.split()/\s treat as whitespace
WS == {" ", "\t"}

BSL == "\\"

\* the delimiter of to_zsh_array
NUL == "NUL"

RECURSIVE LStripSet(_, _)
LStripSet(s, cs) ==
  IF s # <<>> /\ Head(s) \in cs THEN LStripSet(Tail(s), cs) ELSE s

RECURSIVE RStripSet(_, _)
RStripSet(s, cs) ==
  IF s # <<>> /\ s[Len(s)] \in cs THEN RStripSet(SubSeq(s, 1, Len(s) - 1), cs) ELSE s

\* str.lstrip()
lstrip(s) == LStripSet(s, WS)

\* str.strip()
strip(s) == RStripSet(LStripSet(s, WS), WS)

\* str.startswith(p)
startswith(s, p) == Len(s) >= Len(p) /\ SubSeq(s, 1, Len(p)) = p

\* str.find(p), 1-based; 0 when p does not occur
find(s, p) ==
  LET hits == {i \in 1..(Len(s) - Len(p) + 1) : SubSeq(s, i, i + Len(p) - 1) = p}
  IN IF hits = {} THEN 0 ELSE CHOOSE i \in hits : \A j \in hits : i <= j

\* str.partition(p): <<before, separator, after>>
partition(s, p) ==
  LET i == find(s, p)
  IN IF i = 0 THEN <<s, <<>>, <<>>>>
     ELSE <<SubSeq(s, 1, i - 1), p, SubSeq(s, i + Len(p), Len(s))>>

\* str.split(): the whitespace-separated tokens
RECURSIVE split(_)
split(s) ==
  LET t == lstrip(s)
  IN IF t = <<>> THEN <<>>
     ELSE LET ends == {i \in 1..Len(t) : t[i] \in WS}
              n == IF ends = {} THEN Len(t) + 1
                   ELSE CHOOSE i \in ends : \A j \in ends : i <= j
          IN <<SubSeq(t, 1, n - 1)>> \o split(SubSeq(t, n, Len(t)))

\* str.replace(c, r) for a one-character c
RECURSIVE replace(_, _, _)
replace(s, c, r) ==
  IF s = <<>> THEN <<>>
  ELSE (IF Head(s) = c THEN r ELSE <<Head(s)>>) \o replace(Tail(s), c, r)

\* sep.join(parts)
RECURSIVE join(_, _)
join(parts, sep) ==
  IF parts = <<>> THEN <<>>
  ELSE IF Len(parts) = 1 THEN parts[1]
  ELSE parts[1] \o sep \o join(Tail(parts), sep)

\* str.split(sep) for a one-character sep (used to read a zsh_array back)
RECURSIVE splitOn(_, _)
splitOn(s, sep) ==
  LET i == find(s, <<sep>>)
  IN IF i = 0 THEN <<s>>
     ELSE <<SubSeq(s, 1, i - 1)>> \o splitOn(SubSeq(s, i + 1, Len(s)), sep)

\* re.sub(r"\s+", " ", text.strip())
RECURSIVE collapse(_)
collapse(s) ==
  IF s = <<>> THEN <<>>
  ELSE IF Head(s) \in WS THEN <<" ">> \o collapse(lstrip(s))
  ELSE <<Head(s)>> \o collapse(Tail(s))

sanitize(text) == collapse(strip(text))

(***************************************************************************)
(* decode_option                                                            *)
(***************************************************************************)
decode_option(option_part) ==
  LET tokens == split(option_part)
  IN IF tokens = <<>>
     THEN [name |-> <<>>, insert_text |-> <<>>, style |-> "flag", value_hint |-> <<>>]
     ELSE
       LET token == tokens[1]
           remainder == strip(SubSeq(option_part, Len(token) + 1, Len(option_part)))
           parts == partition(token, <<"=">>)
           name1 == RStripSet(parts[1], {"["})
           tail == RStripSet(parts[3], {"]"})
       IN IF find(token, <<"=">>) # 0
          THEN [name |-> RStripSet(name1, {","}),
                insert_text |-> name1 \o <<"=">>,
                style |-> "attached",
                value_hint |-> IF tail # <<>> THEN tail
                               ELSE IF startswith(remainder, <<"<">>)
                                    THEN split(remainder)[1] ELSE <<>>]
          ELSE IF startswith(remainder, <<"<">>)
          THEN [name |-> RStripSet(token, {","}),
                insert_text |-> token,
                style |-> "separate",
                value_hint |-> split(remainder)[1]]
          ELSE [name |-> RStripSet(token, {","}),
                insert_text |-> token,
                style |-> "flag",
                value_hint |-> <<>>]

(***************************************************************************)
(* HelpState                                                                *)
(***************************************************************************)
HelpState == {"GENERAL_LLVM", "MLIR_PASSES", "MLIR_PIPELINES", "GENERIC_OPTIONS"}

OptionCategory == {"GENERIC", "MLIR_OPTION", "MLIR_PASS", "MLIR_PASS_PIPELINE", "LLVM"}

H_GenericOptions == <<"G","e","n","e","r","i","c"," ","O","p","t","i","o","n","s",":">>
H_GeneralOptions == <<"G","e","n","e","r","a","l"," ","o","p","t","i","o","n","s",":">>
H_IR2Vec == <<"I","R","2","V","e","c"," ","O","p","t","i","o","n","s",":">>
H_Passes == <<"P","a","s","s","e","s",":">>
H_PassPipelines == <<"P","a","s","s"," ","P","i","p","e","l","i","n","e","s",":">>
H_ColorOptions == <<"C","o","l","o","r"," ","O","p","t","i","o","n","s",":">>

\* the table falling back to general on a header it does not list
new_state_on_header_resets(self, header) ==
  IF header = H_GenericOptions THEN "GENERIC_OPTIONS"
  ELSE IF header = H_GeneralOptions THEN "GENERAL_LLVM"
  ELSE IF header = H_IR2Vec THEN "GENERAL_LLVM"
  ELSE IF header = H_Passes THEN "MLIR_PASSES"
  ELSE IF header = H_PassPipelines THEN "MLIR_PIPELINES"
  ELSE IF header = H_ColorOptions THEN "GENERIC_OPTIONS"
  ELSE "GENERAL_LLVM"

new_state_on_header(self, header) ==
  IF header = H_GenericOptions THEN "GENERIC_OPTIONS"
  ELSE IF header = H_GeneralOptions THEN "GENERAL_LLVM"
  ELSE IF header = H_IR2Vec THEN "GENERAL_LLVM"
  ELSE IF header = H_Passes THEN "MLIR_PASSES"
  ELSE IF header = H_PassPipelines THEN "MLIR_PIPELINES"
  ELSE IF header = H_ColorOptions THEN "GENERIC_OPTIONS"
  ELSE self

MlirPrefix == <<"-","-","m","l","i","r","-">>

category(self, opt_name) ==
  CASE self = "GENERAL_LLVM" ->
         IF startswith(opt_name, MlirPrefix) THEN "MLIR_OPTION" ELSE "LLVM"
    [] self = "MLIR_PASSES" -> "MLIR_PASS"
    [] self = "MLIR_PIPELINES" -> "MLIR_PASS_PIPELINE"
    [] self = "GENERIC_OPTIONS" -> "GENERIC"

(***************************************************************************)
(* parse_help.  The loop state is the record                                *)
(*   [options, current, current_opt, last_pass_indent, state].              *)
(* current_opt is an index into options (NoOpt for None): the code only     *)
(* ever binds it to the record it has just appended.  current is a pair     *)
(* <<i, j>> naming options[i].sub_options[j] (NoCurrent for None): the code *)
(* only ever binds it to a PassOption it has just appended.  branch names   *)
(* the branch of the loop body the last line took.                          *)
(***************************************************************************)
NoOpt == 0
NoIndent == -1
NoCurrent == <<>>

ParseInit ==
  [options |-> <<>>, current |-> NoCurrent, current_opt |-> NoOpt,
   last_pass_indent |-> NoIndent, state |-> "GENERAL_LLVM", branch |-> "start"]

\* lines 179-182
BlankLine(st) == [st EXCEPT !.last_pass_indent = NoIndent, !.branch = "blank"]

\* the revert taken as soon as the indentation drops by 2
PipelineRevert_step2(st, indent) ==
  IF st.last_pass_indent # NoIndent /\ indent <= st.last_pass_indent - 2
     /\ st.state = "MLIR_PIPELINES"
  THEN [st EXCEPT !.state = "GENERAL_LLVM"]
  ELSE st

\* lines 186-187
PipelineRevert(st, indent) ==
  IF st.last_pass_indent # NoIndent /\ indent <= st.last_pass_indent - 4
     /\ st.state = "MLIR_PIPELINES"
  THEN [st EXCEPT !.state = "GENERAL_LLVM"]
  ELSE st

\* the Choice a choice line spells (lines 192-194)
choice_of(stripped) ==
  LET parts == partition(stripped, <<"-", " ">>)
  IN [value |-> sanitize(LStripSet(parts[1], {"="})), description |-> sanitize(parts[3])]

\* the choice replacing the choices of the open context instead of joining them
ChoiceLine_overwrites(st, stripped) ==
  LET value == choice_of(stripped).value
      desc == choice_of(stripped).description
  IN IF st.current = NoCurrent THEN [st EXCEPT !.branch = "choice_noctx"]
     ELSE IF value # <<>>
     THEN [st EXCEPT !.options[st.current[1]].sub_options[st.current[2]].choices =
                        <<[value |-> value, description |-> desc]>>,
                     !.branch = "choice"]
     ELSE [st EXCEPT !.branch = "choice_novalue"]

\* lines 189-197
ChoiceLine(st, stripped) ==
  LET value == choice_of(stripped).value
      desc == choice_of(stripped).description
  IN IF st.current = NoCurrent THEN [st EXCEPT !.branch = "choice_noctx"]
     ELSE IF value # <<>>
     THEN [st EXCEPT !.options[st.current[1]].sub_options[st.current[2]].choices =
                        Append(@, [value |-> value, description |-> desc]),
                     !.branch = "choice"]
     ELSE [st EXCEPT !.branch = "choice_novalue"]

\* lines 199-210
HeaderLine(st, stripped) ==
  [st EXCEPT !.state = new_state_on_header(st.state, stripped),
             !.current = NoCurrent,
             !.current_opt = NoOpt,
             !.last_pass_indent = NoIndent,
             !.branch = "header"]

\* the sub-option test with the nesting step mistaken for 4 columns
is_pass_option_step4(st, stripped, indent) ==
  /\ st.current_opt # NoOpt
  /\ st.last_pass_indent # NoIndent
  /\ indent = st.last_pass_indent + 4
  /\ startswith(stripped, <<"-">>)

\* lines 227-232
is_pass_option(st, stripped, indent) ==
  /\ st.current_opt # NoOpt
  /\ st.last_pass_indent # NoIndent
  /\ indent = st.last_pass_indent + 2
  /\ startswith(stripped, <<"-">>)

\* the dash line without separator leaving the open context open
OptionLine_keepsContext(st, stripped, indent) ==
  LET parts == partition(stripped, <<" ", "-", " ">>)
      option_part == strip(parts[1])
      description == sanitize(parts[3])
      dec == decode_option(option_part)
      pass_opt_name == LStripSet(dec.name, {"-"})
  IN IF parts[2] = <<>>
     THEN [st EXCEPT !.branch = "nosep"]
     ELSE IF option_part = <<>> THEN [st EXCEPT !.branch = "skip"]
     ELSE IF dec.name = <<>> THEN [st EXCEPT !.branch = "skip"]
     ELSE IF is_pass_option(st, stripped, indent)
     THEN IF pass_opt_name = <<>> THEN [st EXCEPT !.branch = "sub_noname"]
          ELSE [st EXCEPT
                  !.branch = "sub",
                  !.current = <<st.current_opt,
                                Len(st.options[st.current_opt].sub_options) + 1>>,
                  !.options[st.current_opt].sub_options =
                     Append(@, [name |-> pass_opt_name,
                                style |-> dec.style,
                                description |-> description,
                                value_hint |-> dec.value_hint,
                                choices |-> <<>>])]
     ELSE [st EXCEPT
             !.options = Append(@, [name |-> dec.name,
                                    category |-> category(st.state, dec.name),
                                    style |-> dec.style,
                                    description |-> description,
                                    value_hint |-> dec.value_hint,
                                    choices |-> <<>>,
                                    sub_options |-> <<>>]),
             !.current_opt = Len(st.options) + 1,
             !.last_pass_indent = indent,
             !.branch = "top"]

\* lines 212-255
OptionLine(st, stripped, indent) ==
  LET parts == partition(stripped, <<" ", "-", " ">>)
      option_part == strip(parts[1])
      description == sanitize(parts[3])
      dec == decode_option(option_part)
      pass_opt_name == LStripSet(dec.name, {"-"})
  IN IF parts[2] = <<>>
     THEN [st EXCEPT !.current = NoCurrent, !.current_opt = NoOpt, !.branch = "nosep"]
     ELSE IF option_part = <<>> THEN [st EXCEPT !.branch = "skip"]
     ELSE IF dec.name = <<>> THEN [st EXCEPT !.branch = "skip"]
     ELSE IF is_pass_option(st, stripped, indent)
     THEN IF pass_opt_name = <<>> THEN [st EXCEPT !.branch = "sub_noname"]
          ELSE [st EXCEPT
                  !.branch = "sub",
                  !.current = <<st.current_opt,
                                Len(st.options[st.current_opt].sub_options) + 1>>,
                  !.options[st.current_opt].sub_options =
                     Append(@, [name |-> pass_opt_name,
                                style |-> dec.style,
                                description |-> description,
                                value_hint |-> dec.value_hint,
                                choices |-> <<>>])]
     ELSE [st EXCEPT
             !.options = Append(@, [name |-> dec.name,
                                    category |-> category(st.state, dec.name),
                                    style |-> dec.style,
                                    description |-> description,
                                    value_hint |-> dec.value_hint,
                                    choices |-> <<>>,
                                    sub_options |-> <<>>]),
             !.current_opt = Len(st.options) + 1,
             !.last_pass_indent = indent,
             !.branch = "top"]

\* one iteration of the loop of parse_help (lines 177-255)
ParseStep(st, raw_line) ==
  LET stripped == lstrip(raw_line)
      indent == Len(raw_line) - Len(stripped)
      st1 == PipelineRevert(st, indent)
  IN IF stripped = <<>> THEN BlankLine(st)
     ELSE IF startswith(stripped, <<"=">>) THEN ChoiceLine(st1, stripped)
     ELSE IF ~startswith(stripped, <<"-">>) THEN HeaderLine(st1, stripped)
     ELSE OptionLine(st1, stripped, indent)

RECURSIVE ParseFrom(_, _)
ParseFrom(st, lines) ==
  IF lines = <<>> THEN st ELSE ParseFrom(ParseStep(st, Head(lines)), Tail(lines))

\* parse_help(text), text given as text.splitlines()
parse_help(lines) == ParseFrom(ParseInit, lines).options

(***************************************************************************)
(* Completion renderer                                                      *)
(***************************************************************************)
RECURSIVE times(_, _)
times(c, d) == IF d = 0 THEN <<>> ELSE <<c>> \o times(c, d - 1)

\* esc(s, d): every ':' is preceded by d backslashes
esc(s, d) == replace(s, ":", times(BSL, d) \o <<":">>)

S_value == <<"v","a","l","u","e">>
S_number == <<"n","u","m","b","e","r">>
S_int == <<"i","n","t">>
S_long == <<"l","o","n","g">>
S_uint == <<"u","i","n","t">>
S_ulong == <<"u","l","o","n","g">>
S_numbers == <<"_","n","u","m","b","e","r","s">>
S_numbers_l0 == <<"_","n","u","m","b","e","r","s"," ","-","l"," ","0">>
S_no_description == <<"n","o"," ","d","e","s","c","r","i","p","t","i","o","n">>

\* the hint of option_to_values (lines 371-374)
hint_of(opt) ==
  LET h == RStripSet(LStripSet(opt.value_hint, {"<"}), {">"})
  IN IF h = S_value THEN opt.name \o <<" ">> \o S_value ELSE h

\* one choice of a described value list (line 382)
choice_pair(choice) ==
  LET d == esc(replace(strip(choice.description), " ", <<BSL, " ">>), 2)
  IN choice.value \o <<":">> \o (IF d # <<>> THEN d ELSE S_no_description)

choice_value(choice) == choice.value

\* the numeric value hint tested before the choice list
values_of_hintFirst(opt) ==
  IF hint_of(opt) \in {S_number, S_int, S_long} THEN S_numbers
  ELSE IF hint_of(opt) \in {S_uint, S_ulong} THEN S_numbers_l0
  ELSE IF Len(opt.choices) > 0
  THEN IF ~(\E i \in 1..Len(opt.choices) : strip(opt.choices[i].description) # <<>>)
       THEN <<"(">> \o join([i \in 1..Len(opt.choices) |-> choice_value(opt.choices[i])], <<" ">>) \o <<")">>
       ELSE <<"(", "(">>
            \o join([i \in 1..Len(opt.choices) |-> choice_pair(opt.choices[i])], <<" ">>)
            \o <<")", ")">>
  ELSE <<>>

\* the values of option_to_values (lines 376-391)
values_of(opt) ==
  IF Len(opt.choices) > 0
  THEN IF ~(\E i \in 1..Len(opt.choices) : strip(opt.choices[i].description) # <<>>)
       THEN <<"(">> \o join([i \in 1..Len(opt.choices) |-> choice_value(opt.choices[i])], <<" ">>) \o <<")">>
       ELSE <<"(", "(">>
            \o join([i \in 1..Len(opt.choices) |-> choice_pair(opt.choices[i])], <<" ">>)
            \o <<")", ")">>
  ELSE IF hint_of(opt) \in {S_number, S_int, S_long} THEN S_numbers
  ELSE IF hint_of(opt) \in {S_uint, S_ulong} THEN S_numbers_l0
  ELSE <<>>

option_to_values(opt) == <<hint_of(opt), values_of(opt)>>

to_zsh_optspec(opt) ==
  LET hv == option_to_values(opt)
      repeatable == opt.category \in {"MLIR_PASS", "MLIR_PASS_PIPELINE"}
      repetition_star == IF repeatable THEN <<"*">> ELSE <<>>
      pass_opt_sep == IF Len(opt.choices) > 0 \/ Len(opt.sub_options) > 0
                      THEN <<"=", "-">> ELSE <<>>
      descr == replace(esc(opt.description, 1), "]", <<BSL, "]">>)
  IN repetition_star \o opt.name \o pass_opt_sep \o <<"[">> \o descr \o <<"]">>
     \o <<":">> \o esc(hv[1], 1) \o <<":">> \o hv[2]

to_zsh_value(opt) ==
  LET hv == option_to_values(opt)
  IN IF opt.style = "flag"
     THEN opt.name \o <<"[">> \o esc(opt.description, 1) \o <<"]">>
     ELSE opt.name \o <<"[">> \o esc(opt.description, 1) \o <<"]">>
          \o <<":">> \o esc(hv[1], 1) \o <<":">> \o hv[2]

\* '\0'.join(entries)
to_zsh_array(entries) == join(entries, <<NUL>>)

(***************************************************************************)
(* build_payload.  A ZshPayload is [option_specs, pass_options]; the dict   *)
(* pass_options is a function on its key set, and a key written twice by    *)
(* the dict comprehension keeps the value written last.                     *)
(***************************************************************************)
\* the filter also dropping the generic flags
Exported_dropsGeneric(opt) == opt.category \notin {"LLVM", "GENERIC"}

\* the filter of both comprehensions (lines 311 and 319)
Exported(opt) == opt.category # "LLVM"

RECURSIVE SelectExported(_)
SelectExported(opts) ==
  IF opts = <<>> THEN <<>>
  ELSE (IF Exported(Head(opts)) THEN <<Head(opts)>> ELSE <<>>)
       \o SelectExported(Tail(opts))

\* the generator of option_specs (lines 308-312)
option_specs_of(options) ==
  LET exp == SelectExported(options)
  IN to_zsh_array([i \in 1..Len(exp) |-> to_zsh_optspec(exp[i])])

\* the value the dict comprehension stores for one record (lines 314-317)
pass_options_value(opt) ==
  to_zsh_array([j \in 1..Len(opt.sub_options) |-> to_zsh_value(opt.sub_options[j])])

\* the dict keeping the value written first for a repeated key
pass_options_of_firstWins(options) ==
  LET exp == SelectExported(options)
      keys == {exp[i].name : i \in 1..Len(exp)}
      first(k) == CHOOSE i \in 1..Len(exp) :
                    /\ exp[i].name = k
                    /\ \A j \in 1..Len(exp) : exp[j].name = k => i <= j
  IN [k \in keys |-> pass_options_value(exp[first(k)])]

\* the dict comprehension (lines 313-320)
pass_options_of(options) ==
  LET exp == SelectExported(options)
      keys == {exp[i].name : i \in 1..Len(exp)}
      last(k) == CHOOSE i \in 1..Len(exp) :
                    /\ exp[i].name = k
                    /\ \A j \in 1..Len(exp) : exp[j].name = k => j <= i
  IN [k \in keys |-> pass_options_value(exp[last(k)])]

\* the calls the two comprehensions make: per exported record the argument and
\* result of to_zsh_optspec and of the option_to_values it calls (line 397), and
\* per sub-option those of to_zsh_value and of the option_to_values it calls
\* unless the style is flag (lines 409-412)
RenderCalls(options) ==
  LET exp == SelectExported(options)
  IN [i \in 1..Len(exp) |->
        [arg |-> exp[i],
         spec |-> to_zsh_optspec(exp[i]),
         values |-> option_to_values(exp[i])[2],
         subs |-> [j \in 1..Len(exp[i].sub_options) |->
                     [arg |-> exp[i].sub_options[j],
                      spec |-> to_zsh_value(exp[i].sub_options[j]),
                      called |-> exp[i].sub_options[j].style # "flag",
                      values |-> IF exp[i].sub_options[j].style # "flag"
                                 THEN option_to_values(exp[i].sub_options[j])[2]
                                 ELSE <<>>]]]]

PayloadOf(options) ==
  [option_specs |-> option_specs_of(options), pass_options |-> pass_options_of(options)]

build_payload(help_text) == PayloadOf(parse_help(help_text))

(***************************************************************************)
(* The help text fed to parse_help, one line at a time.                     *)
(***************************************************************************)
Sp(n) == times(" ", n)

L_Passes == H_Passes
L_Pipelines == H_PassPipelines
L_Generic == H_GenericOptions
\* "--p - d"
L_OptP == <<"-","-","p"," ","-"," ","d">>
\* "  --mlir-x - d"
L_OptMlir == Sp(2) \o MlirPrefix \o <<"x"," ","-"," ","d">>
\* "    --t=<v> - e"
L_SubT == Sp(4) \o <<"-","-","t","=","<","v",">"," ","-"," ","e">>
\* "    -- - d"
L_SubDashes == Sp(4) \o <<"-","-"," ","-"," ","d">>
\* "      =a - x"
L_ChoiceA == Sp(6) \o <<"=","a"," ","-"," ","x">>
\* "      = - z"
L_ChoiceNoValue == Sp(6) \o <<"="," ","-"," ","z">>
\* "  -x"
L_NoSep == Sp(2) \o <<"-","x">>
L_Blank == <<>>

HelpLines ==
  {L_Passes, L_Pipelines, L_Generic, L_OptP, L_OptMlir, L_SubT, L_SubDashes,
   L_ChoiceA, L_ChoiceNoValue, L_NoSep, L_Blank}

EmptyPayload == [option_specs |-> <<>>, pass_options |-> <<>>]

VARIABLES
  text,              \* the lines of the help text consumed so far (line 176)
  options,           \* parse_help: options
  current,           \* parse_help: current
  current_opt,       \* parse_help: current_opt
  last_pass_indent,  \* parse_help: last_pass_indent
  state,             \* parse_help: state
  trace,             \* per consumed line: the branch taken and the state it was classified in
  pc,                \* "parsing" while parse_help loops, "done" once build_payload returned
  payload,           \* the ZshPayload build_payload returned
  rendered           \* the renderer calls build_payload made: argument and result of each

parseVars ==
  <<text, options, current, current_opt, last_pass_indent, state, trace, pc, payload, rendered>>

VARIABLES
  cache_file,        \* the content of the file at cache_path()
  call,              \* the last call of get_data: its arguments, what it did and returned
  payloads,          \* build_payload of each help text a binary prints, computed once
  run                \* the last run of main: its arguments, exit code and output

cacheVars == <<cache_file, call, payloads, run>>

VARIABLES
  dir,               \* the directory of the cache: the inode tmp_path and path name (0: none)
  inodes,            \* the content of each inode, a sequence of written chunks
  wr,                \* per invocation running save_cache: its position, open file and offset
  seen               \* what the last load_cache read at path

saveVars == <<dir, inodes, wr, seen>>

vars == <<parseVars, cacheVars, saveVars>>

\* the loop state of parse_help as a record
LoopState ==
  [options |-> options, current |-> current, current_opt |-> current_opt,
   last_pass_indent |-> last_pass_indent, state |-> state, branch |-> "start"]

IndentOf(raw_line) == Len(raw_line) - Len(lstrip(raw_line))

ParserAtStart ==
  /\ text = <<>>
  /\ options = ParseInit.options
  /\ current = ParseInit.current
  /\ current_opt = ParseInit.current_opt
  /\ last_pass_indent = ParseInit.last_pass_indent
  /\ state = ParseInit.state
  /\ trace = <<>>
  /\ payload = EmptyPayload
  /\ rendered = <<>>

\* the loop body of parse_help runs on the next line of a text of at most max lines
ParseLineUpTo(raw_line, max) ==
  /\ pc = "parsing"
  /\ Len(text) < max
  /\ LET st == ParseStep(LoopState, raw_line)
     IN /\ options' = st.options
        /\ current' = st.current
        /\ current_opt' = st.current_opt
        /\ last_pass_indent' = st.last_pass_indent
        /\ state' = st.state
        /\ trace' = Append(trace, [branch |-> st.branch,
                                   state |-> IF st.branch = "blank" THEN state
                                             ELSE PipelineRevert(LoopState, IndentOf(raw_line)).state])
  /\ text' = Append(text, raw_line)
  /\ UNCHANGED <<pc, payload, rendered, cacheVars, saveVars>>

ParseLine(raw_line) == ParseLineUpTo(raw_line, MaxLines)

\* the text is exhausted: parse_help returns and build_payload renders
BuildPayload ==
  /\ pc = "parsing"
  /\ payload' = build_payload(text)
  /\ rendered' = RenderCalls(parse_help(text))
  /\ pc' = "done"
  /\ UNCHANGED <<text, options, current, current_opt, last_pass_indent, state, trace, cacheVars,
                 saveVars>>


(***************************************************************************)
(* The result cache: load_cache, save_cache, get_data.                      *)
(*                                                                          *)
(* A cache file is [kind, doc]: kind says whether the file is missing,      *)
(* cannot be read, holds invalid JSON, or holds JSON; doc is the JSON       *)
(* value.  A JSON value is [type, entries]; a dict maps each key of         *)
(* CacheKeys to an entry, shape "absent" standing for a missing key.        *)
(***************************************************************************)
\* the literal key get_data looks up (line 341)
LookupKey == "binary"

\* the resolved paths get_data is called with
Binaries == {"binary", "/opt/llvm/bin/mlir-opt"}

CacheKeys == Binaries \cup {LookupKey}

\* the help texts the binaries print
HelpA == <<L_Passes, L_OptMlir, L_SubT, L_ChoiceA>>
HelpB == <<L_Generic, L_OptP>>
HelpTexts == <<HelpA, HelpB>>

\* run_help(binary) of the binary whose help command prints HelpTexts[help]
run_help(help) == HelpTexts[help]

\* build_payload, tabulated over the help texts
PayloadTable == [h \in 1..Len(HelpTexts) |-> build_payload(run_help(h))]

\* build_payload(help_text) for the help text HelpTexts[help]
build_payload_of_help(help) == payloads[help]

\* run_help raises (FileNotFoundError, RuntimeError)
HelpFails == 0

\* os.path.getmtime raises OSError: mtime = None
NoMtime == 0

\* date.today().isoformat()
Today == "today"

NoChecksum == [kind |-> "none", of |-> 0]

\* hashlib.sha256(help_text.encode()): a hash object, not its digest
sha256(h) == [kind |-> "hashobj", of |-> h]

\* the hex digest string of the help text h
hexdigest(h) == [kind |-> "hex", of |-> h]

AbsentEntry ==
  [shape |-> "absent", mtime |-> NoMtime, checksum |-> NoChecksum,
   last_accessed |-> "", payload |-> EmptyPayload]

NoEntries == [k \in CacheKeys |-> AbsentEntry]

NoneDoc == [type |-> "none", entries |-> NoEntries]

EmptyDict == [type |-> "dict", entries |-> NoEntries]

NoFile == [kind |-> "missing", doc |-> NoneDoc]

\* load_cache (lines 86-91)
load_cache(file) == IF file.kind = "json" THEN file.doc ELSE NoneDoc

\* the truth value Python gives a loaded JSON value
Truthy(doc) ==
  CASE doc.type \in {"none", "null"} -> FALSE
    [] doc.type = "dict" -> \E k \in CacheKeys : doc.entries[k].shape # "absent"
    [] OTHER -> TRUE

\* json.dump raises TypeError on a value that is no JSON type
JsonSerializable(doc) ==
  \A k \in CacheKeys : doc.entries[k].checksum.kind # "hashobj"

\* save_cache (lines 104-112), run without interleaving: the file at path
\* afterwards.  disk_ok is whether mkdir, open and replace succeed.
save_cache(file, doc, disk_ok) ==
  IF disk_ok /\ JsonSerializable(doc) THEN [kind |-> "json", doc |-> doc] ELSE file

Raised(file, ran, loaded) ==
  [raised |-> TRUE, result |-> EmptyPayload, ran_help |-> ran, built |-> FALSE,
   loaded |-> loaded, saved |-> FALSE, file |-> file]

Returned(file, p, ran, built, loaded, saved) ==
  [raised |-> FALSE, result |-> p, ran_help |-> ran, built |-> built,
   loaded |-> loaded, saved |-> saved, file |-> file]

\* get_data with use_cache (lines 329-364)
get_data_cached(file, binary, mtime, help, disk_ok) ==
  LET loaded == load_cache(file)
      cache == IF Truthy(loaded) THEN loaded ELSE EmptyDict
      bincache == cache.entries[LookupKey]
      hit == bincache.shape = "ok"
      cached_checksum == IF hit THEN bincache.checksum ELSE NoChecksum
      checksum == sha256(help)
      rebuild == cached_checksum # checksum \/ ~hit
      payload1 == IF rebuild THEN build_payload_of_help(help) ELSE bincache.payload
      entry == [shape |-> "ok", mtime |-> mtime, checksum |-> checksum,
                last_accessed |-> Today, payload |-> payload1]
      cache1 == [cache EXCEPT !.entries[binary] = entry]
  IN IF cache.type # "dict" THEN Raised(file, FALSE, TRUE)
     ELSE IF bincache.shape \in {"number", "bad_payload"} THEN Raised(file, FALSE, TRUE)
     ELSE IF hit /\ bincache.mtime = mtime
     THEN Returned(file, bincache.payload, FALSE, FALSE, TRUE, FALSE)
     ELSE IF help = HelpFails THEN Raised(file, TRUE, TRUE)
     ELSE Returned(save_cache(file, cache1, disk_ok), payload1, TRUE, rebuild, TRUE, TRUE)

\* get_data without use_cache (lines 325-327)
get_data_uncached(file, binary, mtime, help, disk_ok) ==
  IF help = HelpFails THEN Raised(file, TRUE, FALSE)
  ELSE Returned(file, build_payload_of_help(help), TRUE, TRUE, FALSE, FALSE)

\* get_data taking the cached path whatever use_cache says
get_data_ignoresFlag(file, binary, use_cache, mtime, help, disk_ok) ==
  get_data_cached(file, binary, mtime, help, disk_ok)

\* get_data (lines 324-364)
get_data(file, binary, use_cache, mtime, help, disk_ok) ==
  IF ~use_cache THEN get_data_uncached(file, binary, mtime, help, disk_ok)
  ELSE get_data_cached(file, binary, mtime, help, disk_ok)

(***************************************************************************)
(* The cache files a call can find.                                         *)
(***************************************************************************)
Mtimes == {1, 2}

StoredPayloads == {PayloadTable[h] : h \in 1..Len(HelpTexts)}

OkEntries ==
  {[shape |-> "ok", mtime |-> m, checksum |-> hexdigest(h),
    last_accessed |-> "earlier", payload |-> p] :
     m \in Mtimes, h \in 1..Len(HelpTexts), p \in StoredPayloads}

\* an entry that is a number, a dict without "payload", a dict whose "payload" is
\* not the two ZshPayload fields
MalformedEntries ==
  {[AbsentEntry EXCEPT !.shape = sh] : sh \in {"number", "no_payload", "bad_payload"}}

Entries0 == {AbsentEntry} \cup MalformedEntries \cup OkEntries

CacheFiles ==
  {[kind |-> k, doc |-> NoneDoc] : k \in {"missing", "unreadable", "invalid_json"}}
  \cup {[kind |-> "json", doc |-> [type |-> t, entries |-> NoEntries]] :
          t \in {"null", "list", "number"}}
  \cup {[kind |-> "json", doc |-> [type |-> "dict", entries |-> e]] :
          e \in [CacheKeys -> Entries0]}

(***************************************************************************)
(* save_cache under interleaving (lines 104-112).  Every invocation uses    *)
(* the same temporary name, path.with_suffix(".tmp"): open(..., "w")        *)
(* creates the file or truncates the inode the name already has, each       *)
(* write goes to the opened inode at the writer's own offset, and replace   *)
(* renames whatever inode the temporary name has at that moment.            *)
(***************************************************************************)
Writers == 1..NWriters

\* the chunk a writer's k-th write puts in the file
Chunk(w, k) == <<w, k>>

\* a gap left by writing past the end of a truncated file
Hole == <<0, 0>>

\* the full serialization of writer w's dict
Complete(w) == [k \in 1..NChunks |-> Chunk(w, k)]

\* the file after writing chunk c at offset pos
WriteAt(content, pos, c) ==
  [i \in 1..(IF pos + 1 > Len(content) THEN pos + 1 ELSE Len(content)) |->
     IF i = pos + 1 THEN c
     ELSE IF i <= Len(content) THEN content[i]
     ELSE Hole]

IdleWriter == [pc |-> "start", fd |-> 0, pos |-> 0, serializable |-> TRUE]

NothingSeen == [kind |-> "none", content |-> <<>>]

SaveIdle ==
  /\ dir = [tmp |-> 0, cache |-> 0]
  /\ inodes = <<>>
  /\ wr = <<>>
  /\ seen = NothingSeen

\* tmp_path.open("w") (line 108); serializable says whether json.dump accepts the dict
OpenTmp(w, serializable) ==
  /\ wr[w].pc = "start"
  /\ IF dir.tmp = 0
     THEN /\ inodes' = Append(inodes, <<>>)
          /\ dir' = [dir EXCEPT !.tmp = Len(inodes) + 1]
          /\ wr' = [wr EXCEPT ![w] = [pc |-> "dump", fd |-> Len(inodes) + 1, pos |-> 0,
                                      serializable |-> serializable]]
     ELSE /\ inodes' = [inodes EXCEPT ![dir.tmp] = <<>>]
          /\ dir' = dir
          /\ wr' = [wr EXCEPT ![w] = [pc |-> "dump", fd |-> dir.tmp, pos |-> 0,
                                      serializable |-> serializable]]
  /\ UNCHANGED <<seen, parseVars, cacheVars>>

\* json.dump(payload, fh) (line 109): one write of the next chunk; the with block
\* closes the file after the last one
WriteChunk(w) ==
  /\ wr[w].pc = "dump"
  /\ wr[w].serializable
  /\ inodes' = [inodes EXCEPT ![wr[w].fd] = WriteAt(@, wr[w].pos, Chunk(w, wr[w].pos + 1))]
  /\ wr' = [wr EXCEPT ![w].pos = @ + 1,
                      ![w].pc = IF wr[w].pos + 1 = NChunks THEN "replace" ELSE "dump"]
  /\ UNCHANGED <<dir, seen, parseVars, cacheVars>>

\* json.dump raises on a value that is no JSON type: what was serialized before it
\* is written, the file is closed and the except clause returns (lines 111-112)
DumpRaises(w) ==
  /\ wr[w].pc = "dump"
  /\ ~wr[w].serializable
  /\ inodes' = [inodes EXCEPT ![wr[w].fd] = WriteAt(@, wr[w].pos, Chunk(w, wr[w].pos + 1))]
  /\ wr' = [wr EXCEPT ![w].pos = @ + 1, ![w].pc = "done"]
  /\ UNCHANGED <<dir, seen, parseVars, cacheVars>>

\* tmp_path.replace(path) (line 110); FileNotFoundError is swallowed (lines 111-112)
Replace(w) ==
  /\ wr[w].pc = "replace"
  /\ dir' = IF dir.tmp # 0 THEN [tmp |-> 0, cache |-> dir.tmp] ELSE dir
  /\ wr' = [wr EXCEPT ![w].pc = "done"]
  /\ UNCHANGED <<inodes, seen, parseVars, cacheVars>>

\* load_cache of another invocation reads the file at path (lines 86-91)
ReadCache ==
  /\ seen' = IF dir.cache = 0 THEN [kind |-> "missing", content |-> <<>>]
             ELSE [kind |-> "file", content |-> inodes[dir.cache]]
  /\ seen' # seen
  /\ UNCHANGED <<dir, inodes, wr, parseVars, cacheVars>>

\* no cache file yet, and every invocation about to call save_cache
WritersAtStart ==
  /\ dir = [tmp |-> 0, cache |-> 0]
  /\ inodes = <<>>
  /\ wr = [w \in Writers |-> IdleWriter]
  /\ seen = NothingSeen

NextSave ==
  \/ \E w \in Writers, serializable \in BOOLEAN : OpenTmp(w, serializable)
  \/ \E w \in Writers : WriteChunk(w)
  \/ \E w \in Writers : DumpRaises(w)
  \/ \E w \in Writers : Replace(w)
  \/ ReadCache

NoCall ==
  [n |-> 0, binary |-> "", use_cache |-> FALSE, mtime |-> NoMtime, help |-> HelpFails,
   disk_ok |-> FALSE, cache_before |-> NoFile, out |-> Raised(NoFile, FALSE, FALSE)]

(***************************************************************************)
(* main (lines 446-482).  The arguments of a run are args: the mode, the    *)
(* positional option ([given, name]; not given is None), --no-cache,        *)
(* --nl-delimited; and what the run finds: whether find_command resolves    *)
(* the command (to binary), the binary's modification time, the help text   *)
(* it prints, whether the cache directory can be written and whether        *)
(* unlink succeeds.                                                         *)
(***************************************************************************)
Modes == {"list-options", "list-pass-options", "clean-cache", "print-cache-file"}

NoOption == [given |-> FALSE, name |-> <<>>]

\* `not args.option`: None or the empty string
OptionOmitted(option) == ~option.given \/ option.name = <<>>

\* the positional arguments tried: none, the empty string, a pass of HelpA, another name
OptionArgs ==
  {NoOption,
   [given |-> TRUE, name |-> <<>>],
   [given |-> TRUE, name |-> MlirPrefix \o <<"x">>],
   [given |-> TRUE, name |-> <<"-", "-", "z">>]}

\* str(cache_path())
CachePathText == <<"c", "a", "c", "h", "e", ".", "j", "s", "o", "n">>

\* the diagnostic print(exc, file=sys.stderr) writes
Diagnostic == <<"e", "r", "r", "o", "r">>

\* emit_array (lines 470-473)
emit_array(arr, nl_delimited) == IF nl_delimited THEN replace(arr, NUL, <<"\n">>) ELSE arr

\* dict.get(key) or ""
get_or_empty(d, key) == IF key \in DOMAIN d THEN d[key] ELSE <<>>

Exit(code, out, err, file, got) ==
  [exit |-> code, stdout |-> out, stderr |-> err, file |-> file, data |-> got]

\* cmd_clean_cache (lines 434-443)
cmd_clean_cache(file, unlink_ok) ==
  IF file.kind = "missing" THEN Exit(0, <<>>, <<>>, file, Raised(file, FALSE, FALSE))
  ELSE IF unlink_ok THEN Exit(0, <<>>, <<>>, NoFile, Raised(file, FALSE, FALSE))
  ELSE Exit(1, <<>>, Diagnostic, file, Raised(file, FALSE, FALSE))

\* main (lines 446-482)
main(file, a) ==
  LET got == get_data(file, a.binary, ~a.no_cache, a.mtime, a.help, a.disk_ok)
      none == Raised(file, FALSE, FALSE)
  IN IF a.mode = "clean-cache" THEN cmd_clean_cache(file, a.unlink_ok)
     ELSE IF a.mode = "print-cache-file" THEN Exit(0, CachePathText, <<>>, file, none)
     ELSE IF ~a.cmd_found THEN Exit(0, <<>>, <<>>, file, none)
     ELSE IF got.raised THEN Exit(1, <<>>, Diagnostic, got.file, got)
     ELSE IF a.mode = "list-options"
     THEN Exit(0, emit_array(got.result.option_specs, a.nl_delimited), <<>>, got.file, got)
     ELSE IF OptionOmitted(a.option) THEN Exit(1, <<>>, <<>>, got.file, got)
     ELSE Exit(0, emit_array(get_or_empty(got.result.pass_options, a.option.name),
                             a.nl_delimited), <<>>, got.file, got)

\* the runs whose arguments main does not read are drawn once
NoArgs ==
  [mode |-> "clean-cache", option |-> NoOption, no_cache |-> FALSE, nl_delimited |-> FALSE,
   cmd_found |-> FALSE, binary |-> LookupKey, mtime |-> NoMtime, help |-> HelpFails,
   disk_ok |-> FALSE, unlink_ok |-> FALSE]

MainArgs ==
  {[NoArgs EXCEPT !.mode = m, !.unlink_ok = u] :
     m \in {"clean-cache", "print-cache-file"}, u \in BOOLEAN}
  \cup {[NoArgs EXCEPT !.mode = m, !.option = o] :
          m \in {"list-options", "list-pass-options"}, o \in OptionArgs}
  \cup {[mode |-> m, option |-> o, no_cache |-> nc, nl_delimited |-> nl, cmd_found |-> TRUE,
         binary |-> b, mtime |-> t, help |-> h, disk_ok |-> TRUE, unlink_ok |-> FALSE] :
          m \in {"list-options", "list-pass-options"}, o \in OptionArgs, nc \in BOOLEAN,
          nl \in BOOLEAN, b \in Binaries, t \in {NoMtime, 1},
          h \in {HelpFails} \cup (1..Len(HelpTexts))}

NoRun == [n |-> 0, args |-> NoArgs, out |-> Exit(0, <<>>, <<>>, NoFile, Raised(NoFile, FALSE, FALSE))]

CacheIdle == cache_file = NoFile /\ call = NoCall /\ payloads = <<>> /\ run = NoRun

ParserIdle ==
  /\ ParserAtStart
  /\ pc = "done"

InitParse == ParserAtStart /\ pc = "parsing" /\ CacheIdle /\ SaveIdle

NextParse == (\E raw_line \in HelpLines : ParseLine(raw_line)) \/ BuildPayload

SpecParse == InitParse /\ [][NextParse]_vars

(***************************************************************************)
(* parse_help on help texts that vary the indentation: option lines at      *)
(* columns 0, 2 and 4, a dash line without separator and a choice line at   *)
(* column 0.                                                                *)
(***************************************************************************)
\* "--mlir-x - d"
L_Mlir0 == MlirPrefix \o <<"x"," ","-"," ","d">>
\* "-x"
L_NoSep0 == <<"-","x">>
\* "=a - x"
L_Choice0 == <<"=","a"," ","-"," ","x">>
\* "  =b"
L_ChoiceB == Sp(2) \o <<"=","b">>

IndentLines ==
  {L_Passes, L_Pipelines, L_Generic, L_Blank, L_OptP, L_Mlir0, L_OptMlir, L_SubT,
   L_NoSep0, L_Choice0, L_ChoiceB}

NextIndent == (\E raw_line \in IndentLines : ParseLine(raw_line)) \/ BuildPayload

SpecIndent == InitParse /\ [][NextIndent]_vars

(***************************************************************************)
(* parse_help on help texts that vary the section headers: every header of  *)
(* the table, a header the table does not list, and a listed header with    *)
(* leading blanks.                                                          *)
(***************************************************************************)
L_General == H_GeneralOptions
L_IR2Vec == H_IR2Vec
L_Color == H_ColorOptions
\* "Foo:"
L_Foo == <<"F","o","o",":">>
\* "  Passes:"
L_PassesIndented == Sp(2) \o H_Passes

SectionLines ==
  {L_Generic, L_General, L_IR2Vec, L_Passes, L_Pipelines, L_Color, L_Foo, L_PassesIndented,
   L_OptP, L_OptMlir, L_SubT, L_ChoiceA, L_Blank}

ParseSectionLine(raw_line) == ParseLineUpTo(raw_line, MaxSectionLines)

NextSections == (\E raw_line \in SectionLines : ParseSectionLine(raw_line)) \/ BuildPayload

SpecSections == InitParse /\ [][NextSections]_vars

(***************************************************************************)
(* parse_help and the renderer on help texts that vary what is rendered:    *)
(* descriptions with brackets, sub-options of flag and attached style, a    *)
(* numeric value hint, choices with and without description, a description  *)
(* with a space and parentheses, a choice value of two words.               *)
(***************************************************************************)
\* "  --mlir-y - g[h]"
L_OptBrackets == Sp(2) \o MlirPrefix \o <<"y"," ","-"," ","g","[","h","]">>
\* "    --n=<int> - e"
L_SubInt == Sp(4) \o <<"-","-","n","=","<","i","n","t",">"," ","-"," ","e">>
\* "    --f - g[h]"
L_SubBrackets == Sp(4) \o <<"-","-","f"," ","-"," ","g","[","h","]">>
\* "      =c - y (z)"
L_ChoiceParens == Sp(6) \o <<"=","c"," ","-"," ","y"," ","(","z",")">>
\* "      =d e"
L_ChoiceTwoWords == Sp(6) \o <<"=","d"," ","e">>

RenderLines ==
  {L_OptMlir, L_OptBrackets, L_SubT, L_SubInt, L_SubBrackets,
   L_ChoiceA, L_ChoiceB, L_ChoiceParens, L_ChoiceTwoWords}

NextRender == (\E raw_line \in RenderLines : ParseLine(raw_line)) \/ BuildPayload

SpecRender == InitParse /\ [][NextRender]_vars

InitCache ==
  /\ ParserIdle
  /\ SaveIdle
  /\ cache_file \in CacheFiles
  /\ call = NoCall
  /\ payloads = PayloadTable
  /\ run = NoRun

\* one call of get_data(binary, use_cache) on a binary whose modification time is
\* mtime and whose help command prints HelpTexts[help]
GetData(binary, use_cache, mtime, help, disk_ok) ==
  /\ call.n < MaxCalls
  /\ ~use_cache => (mtime = NoMtime /\ disk_ok)
  /\ LET out == get_data(cache_file, binary, use_cache, mtime, help, disk_ok)
     IN /\ cache_file' = out.file
        /\ call' = [n |-> call.n + 1, binary |-> binary, use_cache |-> use_cache,
                    mtime |-> mtime, help |-> help, disk_ok |-> disk_ok,
                    cache_before |-> cache_file, out |-> out]
  /\ UNCHANGED <<payloads, run, parseVars, saveVars>>

\* cmd_clean_cache (lines 434-443)
CleanCache ==
  /\ call.n < MaxCalls
  /\ cache_file.kind # "missing"
  /\ cache_file' = NoFile
  /\ UNCHANGED <<call, payloads, run, parseVars, saveVars>>

NextCache ==
  \/ \E binary \in Binaries, use_cache \in BOOLEAN, mtime \in {NoMtime} \cup Mtimes,
        help \in {HelpFails} \cup (1..Len(HelpTexts)), disk_ok \in BOOLEAN :
        GetData(binary, use_cache, mtime, help, disk_ok)
  \/ CleanCache

SpecCache == InitCache /\ [][NextCache]_vars

\* the cache files a run of main finds: none, a JSON list, a dict holding an entry
\* under the key get_data looks up
MainCacheFiles ==
  {NoFile,
   [kind |-> "json", doc |-> [type |-> "list", entries |-> NoEntries]],
   [kind |-> "json",
    doc |-> [EmptyDict EXCEPT !.entries[LookupKey] =
               [shape |-> "ok", mtime |-> 1, checksum |-> hexdigest(1),
                last_accessed |-> "earlier", payload |-> PayloadTable[1]]]]}

InitMain ==
  /\ ParserIdle
  /\ SaveIdle
  /\ cache_file \in MainCacheFiles
  /\ call = NoCall
  /\ payloads = PayloadTable
  /\ run = NoRun

\* one run of main
Main(a) ==
  /\ run.n < MaxCalls
  /\ LET out == main(cache_file, a)
     IN /\ cache_file' = out.file
        /\ run' = [n |-> run.n + 1, args |-> a, out |-> out]
  /\ UNCHANGED <<call, payloads, parseVars, saveVars>>

NextMain == \E a \in MainArgs : Main(a)

SpecMain == InitMain /\ [][NextMain]_vars

InitSave == ParserIdle /\ CacheIdle /\ WritersAtStart

SpecSave == InitSave /\ [][NextSave]_vars


(***************************************************************************)
(* Vocabulary of the parser claims, read off the consumed text.             *)
(***************************************************************************)
LastLine == text[Len(text)]

\* a line whose first non-blank character is '='
IsChoiceLine(l) == startswith(lstrip(l), <<"=">>)

\* a line that starts with a dash and has a " - " separator
IsDashSepLine(l) ==
  startswith(lstrip(l), <<"-">>) /\ partition(lstrip(l), <<" ", "-", " ">>)[2] # <<>>

\* the name decode_option gives the option part of a dash line
DecodedName(l) == decode_option(strip(partition(lstrip(l), <<" ", "-", " ">>)[1])).name

\* the indices n <= upto of consumed lines that took a branch in bs, ascending
RECURSIVE LinesTaking(_, _)
LinesTaking(bs, upto) ==
  IF upto = 0 THEN <<>>
  ELSE LinesTaking(bs, upto - 1)
       \o (IF trace[upto].branch \in bs THEN <<upto>> ELSE <<>>)

\* the lines that declared a top-level Option Record, in input order
TopLines == LinesTaking({"top"}, Len(text))

\* the entries of a zsh_array
Entries(arr) == IF arr = <<>> THEN <<>> ELSE splitOn(arr, NUL)

(***************************************************************************)
(* C1: a choice line with a non-empty value that directly follows a         *)
(* top-level option line is appended to the choices of the Option Record    *)
(* that line declared.                                                      *)
(***************************************************************************)
C1_ChoiceAfterTopLevelIsRecorded ==
  (/\ pc = "parsing"
   /\ Len(text) >= 2
   /\ trace[Len(text) - 1].branch = "top"
   /\ IsChoiceLine(LastLine)
   /\ choice_of(lstrip(LastLine)).value # <<>>)
  => options[Len(options)].choices = <<choice_of(lstrip(LastLine))>>

(***************************************************************************)
(* C2 as claimed: a dash line with a " - " separator and a non-empty        *)
(* decoded name is appended as a Sub-Option (leading dashes stripped) to    *)
(* the open top-level record iff a top-level option is open, an indent is   *)
(* recorded and the line is indented by that indent + 2; otherwise it       *)
(* starts a new top-level record.  Appending a sub-option changes neither   *)
(* the open top-level option nor the last top-level indent.                 *)
(***************************************************************************)
SubOptionTest(l) ==
  /\ current_opt # NoOpt
  /\ last_pass_indent # NoIndent
  /\ IndentOf(l) = last_pass_indent + 2

AppendsSubOption(l) ==
  /\ Len(options') = Len(options)
  /\ \A i \in 1..Len(options) : i # current_opt => options'[i] = options[i]
  /\ Len(options'[current_opt].sub_options) = Len(options[current_opt].sub_options) + 1
  /\ SubSeq(options'[current_opt].sub_options, 1, Len(options[current_opt].sub_options))
       = options[current_opt].sub_options
  /\ options'[current_opt].sub_options[Len(options'[current_opt].sub_options)].name
       = LStripSet(DecodedName(l), {"-"})
  /\ options'[current_opt].choices = options[current_opt].choices
  /\ current_opt' = current_opt
  /\ last_pass_indent' = last_pass_indent

StartsTopLevel(l) ==
  /\ Len(options') = Len(options) + 1
  /\ SubSeq(options', 1, Len(options)) = options
  /\ options'[Len(options')].name = DecodedName(l)
  /\ options'[Len(options')].sub_options = <<>>
  /\ current_opt' = Len(options')
  /\ last_pass_indent' = IndentOf(l)

C2_SubOptionIffIndentPlus2 ==
  [][\A l \in HelpLines :
       (text' = Append(text, l) /\ IsDashSepLine(l) /\ DecodedName(l) # <<>>)
       => IF SubOptionTest(l) THEN AppendsSubOption(l) ELSE StartsTopLevel(l)]_vars

(***************************************************************************)
(* C2 as amended: the same, except that a line passing the sub-option test  *)
(* whose decoded name consists of dashes only is skipped: it appends        *)
(* nothing and leaves the parser state as it was.                           *)
(***************************************************************************)
C2_SubOptionIffIndentPlus2AndNamed ==
  [][\A l \in HelpLines :
       (text' = Append(text, l) /\ IsDashSepLine(l) /\ DecodedName(l) # <<>>)
       => IF SubOptionTest(l)
          THEN IF LStripSet(DecodedName(l), {"-"}) # <<>>
               THEN AppendsSubOption(l)
               ELSE UNCHANGED <<options, current, current_opt, last_pass_indent, state>>
          ELSE StartsTopLevel(l)]_vars

\* two consecutive lines at parent indent + 2 became sub-options of one parent
C2_Witness ==
  /\ Len(text) >= 3
  /\ trace[Len(text)].branch = "sub"
  /\ trace[Len(text) - 1].branch = "sub"
  /\ current_opt # NoOpt
  /\ Len(options[current_opt].sub_options) = 2
  /\ last_pass_indent + 2 = IndentOf(LastLine)

(***************************************************************************)
(* C3: option_specs holds exactly one rendered spec per top-level Option    *)
(* Record that is not foreign/ignored, in the order of the top-level option *)
(* lines of the input; a record is foreign/ignored exactly when its line    *)
(* was classified in state general and its name does not start with         *)
(* --mlir-.                                                                 *)
(***************************************************************************)
ForeignLine(n) ==
  trace[n].state = "GENERAL_LLVM" /\ ~startswith(DecodedName(text[n]), MlirPrefix)

RECURSIVE ExpectedSpecs(_)
ExpectedSpecs(k) ==
  IF k = 0 THEN <<>>
  ELSE ExpectedSpecs(k - 1)
       \o (IF ForeignLine(TopLines[k]) THEN <<>> ELSE <<to_zsh_optspec(options[k])>>)

C3_OptionSpecsInInputOrder ==
  pc = "done" =>
    /\ Len(options) = Len(TopLines)
    /\ \A k \in 1..Len(options) : options[k].name = DecodedName(text[TopLines[k]])
    /\ Entries(payload.option_specs) = ExpectedSpecs(Len(options))

\* a foreign record is dropped between two exported records of different sections
C3_Witness ==
  /\ pc = "done"
  /\ Len(options) >= 3
  /\ \E i, j, k \in 1..Len(options) :
        /\ i < j /\ j < k
        /\ options[i].category # "LLVM"
        /\ options[j].category = "LLVM"
        /\ options[k].category \notin {"LLVM", options[i].category}
  /\ Len(Entries(payload.option_specs)) = Len(options) - 1

(***************************************************************************)
(* C4 as claimed: for every Option Record r that is not foreign/ignored,    *)
(* pass_options[r.name] is the NUL-joined rendered specs of r's own         *)
(* sub-options in source order, and no key of pass_options comes only from  *)
(* a foreign/ignored record.                                                *)
(***************************************************************************)
\* the consumed lines that became sub-options of the k-th record
OwnSubLines(k) ==
  LET from == TopLines[k]
      to == IF k < Len(TopLines) THEN TopLines[k + 1] ELSE Len(text) + 1
      subs == LinesTaking({"sub"}, Len(text))
  IN SelectSeq(subs, LAMBDA n : from < n /\ n < to)

OwnSubOptions(k) ==
  /\ Len(options[k].sub_options) = Len(OwnSubLines(k))
  /\ \A j \in 1..Len(OwnSubLines(k)) :
        options[k].sub_options[j].name = LStripSet(DecodedName(text[OwnSubLines(k)[j]]), {"-"})

OwnPassOptions(k) ==
  /\ OwnSubOptions(k)
  /\ options[k].name \in DOMAIN payload.pass_options
  /\ payload.pass_options[options[k].name]
       = join([j \in 1..Len(options[k].sub_options) |->
                 to_zsh_value(options[k].sub_options[j])], <<NUL>>)

NoForeignKey ==
  \A key \in DOMAIN payload.pass_options :
     \E k \in 1..Len(options) : options[k].name = key /\ ~ForeignLine(TopLines[k])

C4_PassOptionsOfEveryRecord ==
  pc = "done" =>
    /\ \A k \in 1..Len(options) : ~ForeignLine(TopLines[k]) => OwnPassOptions(k)
    /\ NoForeignKey

(***************************************************************************)
(* C4 as amended: the same for every non-foreign Option Record r that is    *)
(* the last non-foreign record of the input bearing its name.               *)
(***************************************************************************)
LastOfItsName(k) ==
  \A m \in 1..Len(options) :
     (options[m].name = options[k].name /\ ~ForeignLine(TopLines[m])) => m <= k

C4_PassOptionsOfLastRecordOfName ==
  pc = "done" =>
    /\ \A k \in 1..Len(options) :
          (~ForeignLine(TopLines[k]) /\ LastOfItsName(k)) => OwnPassOptions(k)
    /\ \A k \in 1..Len(options) : OwnSubOptions(k)
    /\ NoForeignKey

\* a record with two sub-options is exported next to a foreign record of another name
C4_Witness ==
  /\ pc = "done"
  /\ \E k, m \in 1..Len(options) :
        /\ ~ForeignLine(TopLines[k]) /\ LastOfItsName(k)
        /\ Len(options[k].sub_options) = 2
        /\ ForeignLine(TopLines[m])
        /\ options[m].name \notin DOMAIN payload.pass_options
        /\ Len(Entries(payload.pass_options[options[k].name])) = 2

(***************************************************************************)
(* Vocabulary of the cache claims, read off the last call of get_data.      *)
(***************************************************************************)
IsDict(file) == file.kind = "json" /\ file.doc.type = "dict"

\* the file is a JSON object and every entry it holds has the four fields
WellFormedCache(file) ==
  IsDict(file) /\ \A k \in CacheKeys : file.doc.entries[k].shape \in {"absent", "ok"}

\* the file holds a well-formed entry for the key
Stored(file, key) == IsDict(file) /\ file.doc.entries[key].shape = "ok"

StoredBefore == call.cache_before.doc.entries[call.binary]

CachedCall == call.n > 0 /\ call.use_cache

HelpSucceeds == call.help # HelpFails

(***************************************************************************)
(* C5: in cached mode, when the cache file holds an entry for the binary's  *)
(* path whose stored modification time equals the live one, get_data        *)
(* returns the stored Payload without running the help command and without  *)
(* re-parsing.                                                              *)
(***************************************************************************)
C5_SameMtimeReturnsStored ==
  (/\ CachedCall
   /\ WellFormedCache(call.cache_before)
   /\ Stored(call.cache_before, call.binary)
   /\ StoredBefore.mtime = call.mtime)
  => /\ ~call.out.raised
     /\ ~call.out.ran_help
     /\ ~call.out.built
     /\ call.out.result = StoredBefore.payload

(***************************************************************************)
(* C6: in cached mode, when a stored entry exists for the binary and its    *)
(* modification time differs from the live one, get_data re-runs help and   *)
(* calls build_payload only if the checksum of the fetched help text        *)
(* differs from the stored checksum; when the checksum is equal the stored  *)
(* Payload is returned unchanged.                                           *)
(***************************************************************************)
C6_RebuildOnlyOnChecksumChange ==
  (/\ CachedCall
   /\ WellFormedCache(call.cache_before)
   /\ Stored(call.cache_before, call.binary)
   /\ StoredBefore.mtime # call.mtime
   /\ HelpSucceeds)
  => /\ ~call.out.raised
     /\ call.out.ran_help
     /\ call.out.built <=> (hexdigest(call.help) # StoredBefore.checksum)
     /\ hexdigest(call.help) = StoredBefore.checksum
          => call.out.result = StoredBefore.payload

(***************************************************************************)
(* C7: after a cached-mode get_data call that obtained help text (and       *)
(* whose writes to disk succeed), the cache file holds an entry keyed by    *)
(* the binary's path with the modification time, the hex-digest checksum of *)
(* the help text, the last-accessed date and the returned Payload, and the  *)
(* entries of the other binaries are as they were.                          *)
(***************************************************************************)
C7_EntryWrittenAfterParse ==
  (/\ CachedCall
   /\ call.out.ran_help
   /\ ~call.out.raised
   /\ call.disk_ok)
  => /\ IsDict(call.out.file)
     /\ call.out.file.doc.entries[call.binary]
          = [shape |-> "ok", mtime |-> call.mtime, checksum |-> hexdigest(call.help),
             last_accessed |-> Today, payload |-> call.out.result]
     /\ \A k \in CacheKeys \ {call.binary} :
           call.out.file.doc.entries[k] = load_cache(call.cache_before).entries[k]

(***************************************************************************)
(* C8: whatever the cache file contains (missing, unreadable, invalid JSON, *)
(* a non-object top level, a malformed entry), a cached-mode get_data call  *)
(* on a binary whose help command succeeds raises no error and returns      *)
(* build_payload of the live help text.                                     *)
(***************************************************************************)
\* a cache file that is absent or damaged and offers no usable entry
BrokenCache(file) ==
  /\ ~WellFormedCache(file)
  /\ \A k \in CacheKeys : file.doc.entries[k].shape # "ok"

C8_BrokenCacheNeverBlocks ==
  (/\ CachedCall
   /\ HelpSucceeds
   /\ BrokenCache(call.cache_before))
  => /\ ~call.out.raised
     /\ call.out.result = build_payload(run_help(call.help))

(***************************************************************************)
(* C10: with use_cache false, get_data neither reads nor writes the cache   *)
(* file, leaves its content unchanged, always runs the help command, and    *)
(* returns build_payload of the live help text whatever entry is stored.    *)
(***************************************************************************)
C10_NoCacheBypassesTheCache ==
  (call.n > 0 /\ ~call.use_cache)
  => /\ ~call.out.loaded
     /\ ~call.out.saved
     /\ call.out.file = call.cache_before
     /\ call.out.ran_help
     /\ call.out.raised <=> ~HelpSucceeds
     /\ HelpSucceeds => call.out.result = build_payload(run_help(call.help))

\* a --no-cache call on a binary for which a cached call would have answered
\* from a stored entry holding another Payload
C10_Witness ==
  /\ call.n > 0 /\ ~call.use_cache
  /\ HelpSucceeds
  /\ call.binary = LookupKey
  /\ Stored(call.cache_before, LookupKey)
  /\ WellFormedCache(call.cache_before)
  /\ ~call.out.raised
  /\ StoredBefore.payload # call.out.result

(***************************************************************************)
(* C9: under any interleaving of invocations that write the cache           *)
(* (temporary file, then rename) and invocations that read it, the cache    *)
(* path holds at every instant either no file or the complete               *)
(* serialization produced by one single writer, and a reader never reads a  *)
(* partially written cache.                                                 *)
(***************************************************************************)
IsComplete(content) == \E w \in Writers : content = Complete(w)

ConsumesLine == Len(text') = Len(text) + 1

NewLine == text'[Len(text')]

Branches ==
  {"blank", "choice_noctx", "choice", "choice_novalue", "header", "nosep", "skip",
   "sub_noname", "sub", "top"}

IsPrefix(a, b) == Len(a) <= Len(b) /\ SubSeq(b, 1, Len(a)) = a

RECURSIVE ChoicesIn(_)
ChoicesIn(xs) ==
  IF xs = <<>> THEN 0 ELSE Len(Head(xs).choices) + ChoicesIn(Tail(xs))

\* the number of Option Records, Sub-Options and Choices of a parse result
RECURSIVE SizeOf(_)
SizeOf(opts) ==
  IF opts = <<>> THEN 0
  ELSE 1 + Len(Head(opts).choices) + Len(Head(opts).sub_options)
         + ChoicesIn(Head(opts).sub_options) + SizeOf(Tail(opts))

SameHead(a, b) ==
  /\ a.name = b.name
  /\ a.style = b.style
  /\ a.description = b.description
  /\ a.value_hint = b.value_hint

KeepsSub(a, b) == SameHead(a, b) /\ IsPrefix(a.choices, b.choices)

KeepsRecord(a, b) ==
  /\ SameHead(a, b)
  /\ a.category = b.category
  /\ IsPrefix(a.choices, b.choices)
  /\ Len(a.sub_options) <= Len(b.sub_options)
  /\ \A j \in 1..Len(a.sub_options) : KeepsSub(a.sub_options[j], b.sub_options[j])

\* every record, sub-option and choice of old is in new, at the same place
KeepsAll(old, new) ==
  /\ Len(old) <= Len(new)
  /\ \A i \in 1..Len(old) : KeepsRecord(old[i], new[i])

\* a non-blank line that starts with neither '-' nor '='
IsHeaderLine(l) ==
  /\ lstrip(l) # <<>>
  /\ ~startswith(lstrip(l), <<"-">>)
  /\ ~startswith(lstrip(l), <<"=">>)

\* a line that starts with a dash and has no " - " separator
IsNoSepLine(l) ==
  startswith(lstrip(l), <<"-">>) /\ partition(lstrip(l), <<" ", "-", " ">>)[2] = <<>>

\* the pipeline-listing revert applies to the line l in the current state
RevertApplies(l) ==
  /\ lstrip(l) # <<>>
  /\ state = "MLIR_PIPELINES"
  /\ last_pass_indent # NoIndent
  /\ IndentOf(l) <= last_pass_indent - 4

(***************************************************************************)
(* C12: parse_help is total.  Every line of the text is consumed by one     *)
(* branch of the loop, each line adds at most one Option Record, Sub-Option *)
(* or Choice and keeps every existing one where it was, and when the text   *)
(* is exhausted parse_help returns the accumulated records.                 *)
(***************************************************************************)
C12_ParseHelpIsTotal ==
  [][/\ ConsumesLine =>
          /\ Len(trace') = Len(text')
          /\ trace'[Len(trace')].branch \in Branches
          /\ KeepsAll(options, options')
          /\ SizeOf(options') <= SizeOf(options) + 1
     /\ (pc = "parsing" /\ pc' = "done") =>
          /\ text' = text
          /\ payload' = PayloadOf(options)]_vars

\* a text of odd lines was consumed to the end: a choice line without context
\* and a dash line without separator around one option and its sub-option
C12_Witness ==
  /\ pc = "done"
  /\ Len(options) = 1
  /\ Len(options[1].sub_options) = 1
  /\ \E a, b \in 1..Len(trace) :
        /\ trace[a].branch = "choice_noctx"
        /\ trace[b].branch = "nosep"

(***************************************************************************)
(* C17: once a later top-level Option Record has been appended, no earlier  *)
(* Option Record is modified by any subsequent line: its choices, its       *)
(* sub_options and the choices of its sub-options gain no further entries.  *)
(***************************************************************************)
C17_EarlierRecordsFrozen ==
  [][\A k \in 1..(Len(options) - 1) : options'[k] = options[k]]_vars

(***************************************************************************)
(* C16 as claimed: a dash line without " - " separator creates no record,   *)
(* leaves the section state and every existing record unchanged and closes  *)
(* the open context; until the next top-level option line is parsed, choice *)
(* lines are ignored and a dash line with separator starts a new top-level  *)
(* record, even when indented 2 more than the previous top-level option.    *)
(***************************************************************************)
\* a dash line without separator was consumed and no top-level option since
ContextClosed ==
  \E n \in 1..Len(trace) :
     /\ trace[n].branch = "nosep"
     /\ \A m \in (n + 1)..Len(trace) : trace[m].branch # "top"

NoSepClosesContext ==
  /\ IsNoSepLine(NewLine) =>
        /\ options' = options
        /\ current' = NoCurrent
        /\ current_opt' = NoOpt
  /\ (ContextClosed /\ IsChoiceLine(NewLine)) => options' = options
  /\ (ContextClosed /\ IsDashSepLine(NewLine)) =>
        /\ Len(options') = Len(options) + 1
        /\ SubSeq(options', 1, Len(options)) = options
        /\ options'[Len(options')].sub_options = <<>>

C16_NoSepLeavesStateAndClosesContext ==
  [][ConsumesLine =>
       /\ NoSepClosesContext
       /\ IsNoSepLine(NewLine) => state' = state]_vars

(***************************************************************************)
(* C16 as amended: the same, except that the pipeline-listing revert        *)
(* applies to a dash line without separator as to any non-blank line: in    *)
(* pipeline-listing state with a recorded indent L, such a line indented at *)
(* most L - 4 sets the state to general; otherwise the state is unchanged.  *)
(***************************************************************************)
C16_NoSepClosesContextStateUpToRevert ==
  [][ConsumesLine =>
       /\ NoSepClosesContext
       /\ IsNoSepLine(NewLine) =>
            state' = IF RevertApplies(NewLine) THEN "GENERAL_LLVM" ELSE state]_vars

\* after a dash line without separator, a choice line was ignored and a line
\* indented 2 more than the previous top-level option became a top-level record
C16_Witness ==
  /\ Len(text) >= 4
  /\ trace[Len(text) - 3].branch = "top"
  /\ trace[Len(text) - 2].branch = "nosep"
  /\ trace[Len(text) - 1].branch = "choice_noctx"
  /\ trace[Len(text)].branch = "top"
  /\ IndentOf(LastLine) = IndentOf(text[Len(text) - 3]) + 2
  /\ Len(options) >= 2
  /\ options[Len(options) - 1].sub_options = <<>>

(***************************************************************************)
(* C18: the section state starts as general and changes only by a header    *)
(* line (to the table entry of the exact header text, unchanged when the    *)
(* header is not in the table) and by the pipeline-listing revert.  Every   *)
(* header line, recognised or not, resets the open top-level option, the    *)
(* open choice target and the last top-level indent; blank, choice and      *)
(* option lines change the state only by the revert.                        *)
(***************************************************************************)
SectionTable ==
  {<<H_GenericOptions, "GENERIC_OPTIONS">>, <<H_ColorOptions, "GENERIC_OPTIONS">>,
   <<H_GeneralOptions, "GENERAL_LLVM">>, <<H_IR2Vec, "GENERAL_LLVM">>,
   <<H_Passes, "MLIR_PASSES">>, <<H_PassPipelines, "MLIR_PIPELINES">>}

Recognised(l) == \E e \in SectionTable : e[1] = lstrip(l)

SectionOf(l) == (CHOOSE e \in SectionTable : e[1] = lstrip(l))[2]

C18_StateChangesOnlyByHeaderOrRevert ==
  /\ (text = <<>> => state = "GENERAL_LLVM")
  /\ [][ConsumesLine =>
          IF IsHeaderLine(NewLine)
          THEN /\ state' = IF Recognised(NewLine) THEN SectionOf(NewLine)
                           ELSE IF RevertApplies(NewLine) THEN "GENERAL_LLVM"
                           ELSE state
               /\ current' = NoCurrent
               /\ current_opt' = NoOpt
               /\ last_pass_indent' = NoIndent
          ELSE state' = IF RevertApplies(NewLine) THEN "GENERAL_LLVM" ELSE state]_vars

\* a header the table does not list reset the open top-level option and its
\* indent and left the pass-listing state as it was
C18_Witness ==
  /\ Len(text) >= 3
  /\ LastLine = L_Foo
  /\ trace[Len(text) - 1].branch = "top"
  /\ state = "MLIR_PASSES"
  /\ current = NoCurrent
  /\ current_opt = NoOpt
  /\ last_pass_indent = NoIndent
  /\ Len(options) = 1

(***************************************************************************)
(* C19: in pipeline-listing state with a recorded indent L, a non-blank     *)
(* line indented at most L - 4 reverts the state to general before the line *)
(* is classified, so an option it declares is categorised by the general    *)
(* rules; a line indented more than L - 4, a line seen while no indent is   *)
(* recorded, and any line in another state is classified in the state as it *)
(* was.                                                                     *)
(***************************************************************************)
\* the category the rules of section 4.3 give a name in a state
CategoryByRules(s, name) ==
  IF s = "GENERAL_LLVM"
  THEN (IF startswith(name, MlirPrefix) THEN "MLIR_OPTION" ELSE "LLVM")
  ELSE IF s = "MLIR_PASSES" THEN "MLIR_PASS"
  ELSE IF s = "MLIR_PIPELINES" THEN "MLIR_PASS_PIPELINE"
  ELSE "GENERIC"

ClassifiedIn(l) ==
  IF /\ state = "MLIR_PIPELINES"
     /\ last_pass_indent # NoIndent
     /\ IndentOf(l) <= last_pass_indent - 4
  THEN "GENERAL_LLVM"
  ELSE state

C19_PipelineRevert ==
  [][(ConsumesLine /\ lstrip(NewLine) # <<>>) =>
       /\ ~IsHeaderLine(NewLine) => state' = ClassifiedIn(NewLine)
       /\ Len(options') = Len(options) + 1 =>
            options'[Len(options')].category
              = CategoryByRules(ClassifiedIn(NewLine), options'[Len(options')].name)]_vars

\* a pipeline declared at column 4 is followed by a --mlir- option at column 0
C19_Witness ==
  /\ Len(text) >= 3
  /\ text[Len(text) - 2] = L_Pipelines
  /\ LastLine = L_Mlir0
  /\ Len(options) = 2
  /\ options[1].category = "MLIR_PASS_PIPELINE"
  /\ options[2].category = "MLIR_OPTION"
  /\ state = "GENERAL_LLVM"

(***************************************************************************)
(* Vocabulary of the renderer claims, read off the calls build_payload      *)
(* made.                                                                    *)
(***************************************************************************)
\* the calls of option_to_values: its argument and the value expression
ValueCalls ==
  {[arg |-> rendered[i].arg, values |-> rendered[i].values] : i \in 1..Len(rendered)}
  \cup UNION {{[arg |-> rendered[i].subs[j].arg, values |-> rendered[i].subs[j].values] :
                 j \in {n \in 1..Len(rendered[i].subs) : rendered[i].subs[n].called}} :
              i \in 1..Len(rendered)}

\* the calls of to_zsh_optspec and to_zsh_value: the argument and the spec
SpecCalls ==
  {[arg |-> rendered[i].arg, spec |-> rendered[i].spec] : i \in 1..Len(rendered)}
  \cup UNION {{[arg |-> rendered[i].subs[j].arg, spec |-> rendered[i].subs[j].spec] :
                 j \in 1..Len(rendered[i].subs)} :
              i \in 1..Len(rendered)}

HasDescribedChoice(opt) ==
  \E k \in 1..Len(opt.choices) : opt.choices[k].description # <<>>

Occurs(p, s) == find(s, p) # 0

endswith(s, p) == Len(s) >= Len(p) /\ SubSeq(s, Len(s) - Len(p) + 1, Len(s)) = p

\* s with a backslash before every character of cs
RECURSIVE EscapeEach(_, _)
EscapeEach(s, cs) ==
  IF s = <<>> THEN <<>>
  ELSE (IF Head(s) \in cs THEN <<BSL, Head(s)>> ELSE <<Head(s)>>) \o EscapeEach(Tail(s), cs)

\* the places of the character c in s that no backslash precedes
Unescaped(s, c) == {i \in 1..Len(s) : s[i] = c /\ (i = 1 \/ s[i - 1] # BSL)}

\* s split at the spaces no backslash precedes
RECURSIVE SplitUnescaped(_)
SplitUnescaped(s) ==
  LET at == Unescaped(s, " ")
  IN IF at = {} THEN <<s>>
     ELSE LET i == CHOOSE n \in at : \A m \in at : n <= m
          IN <<SubSeq(s, 1, i - 1)>> \o SplitUnescaped(SubSeq(s, i + 1, Len(s)))

(***************************************************************************)
(* C13: when an option or sub-option has at least one choice with a         *)
(* non-empty description, its value expression is wrapped in double         *)
(* parentheses and every choice description is rendered with its spaces and *)
(* its parentheses backslash-escaped, as value:description.                 *)
(***************************************************************************)
C13_ChoiceDescriptionsEscaped ==
  pc = "done" =>
    \A c \in ValueCalls :
       HasDescribedChoice(c.arg) =>
         /\ startswith(c.values, <<"(", "(">>)
         /\ endswith(c.values, <<")", ")">>)
         /\ \A k \in 1..Len(c.arg.choices) :
               c.arg.choices[k].description # <<>> =>
                 Occurs(c.arg.choices[k].value \o <<":">>
                          \o EscapeEach(c.arg.choices[k].description, {" ", "(", ")"}),
                        c.values)

(***************************************************************************)
(* C14: in every rendered spec, of a top-level option and of a sub-option   *)
(* alike, every ']' and every '[' of the description is preceded by a       *)
(* backslash, so the first unescaped ']' after the opening descriptor       *)
(* bracket is the one that closes the descriptor.                           *)
(***************************************************************************)
C14_DescriptorBracketsEscaped ==
  pc = "done" =>
    \A c \in SpecCalls :
       LET open == find(c.spec, <<"[">>)
           content == EscapeEach(esc(c.arg.description, 1), {"[", "]"})
           closing == open + Len(content) + 1
       IN /\ open # 0
          /\ closing <= Len(c.spec)
          /\ SubSeq(c.spec, open, closing) = <<"[">> \o content \o <<"]">>
          /\ \A i \in Unescaped(c.spec, "]") : i > open => closing <= i

C20_OneItemPerChoice ==
  pc = "done" =>
    \A c \in ValueCalls :
       HasDescribedChoice(c.arg) =>
         LET items == SplitUnescaped(SubSeq(c.values, 3, Len(c.values) - 2))
         IN /\ Len(items) = Len(c.arg.choices)
            /\ \A k \in 1..Len(items) :
                  k <= Len(c.arg.choices) =>
                    startswith(items[k], c.arg.choices[k].value \o <<":">>)

(***************************************************************************)
(* C11: whenever main runs in mode list-pass-options with the option name   *)
(* omitted, it exits with code 1 and writes nothing to standard output,     *)
(* whatever the outcome of binary resolution, help execution and cache      *)
(* lookup.                                                                  *)
(***************************************************************************)
C11_OmittedNameExitsOne ==
  (/\ run.n > 0
   /\ run.args.mode = "list-pass-options"
   /\ OptionOmitted(run.args.option))
  => /\ run.out.exit = 1
     /\ run.out.stdout = <<>>

====
